---- MODULE Spec2Model ----
(***************************************************************************)
(* ArquiCostos (src/App.tsx): the project store, its persistence in        *)
(* localStorage, the APU editor draft and the import / restore handlers,   *)
(* as a state machine.  One action per event handler or asynchronous       *)
(* completion (FileReader.onload, the continuation of handleAiGenerate).   *)
(***************************************************************************)
EXTENDS Integers, Sequences, FiniteSets, TLC

(***************************************************************************)
(* Bounds of the model.                                                    *)
(***************************************************************************)
\* Date.now() takes the values 1..MaxTime.
MaxTime == 2
\* An append to the store is explored only while the store is shorter:
\* MaxProjects under SpecStore, MaxEditorProjects under Spec.
MaxProjects == 2
MaxEditorProjects == 1
\* An append to an APU list is explored only while the list is shorter:
\* MaxApus under Spec, MaxListApus under SpecApu.
MaxApus == 1
MaxListApus == 2
\* File reads in flight at the same time: MaxReads under SpecStore and
\* Spec, MaxOverlapReads under SpecOverlap.
MaxReads == 1
MaxOverlapReads == 2
\* The store cap under SpecOverlap.
MaxOverlapProjects == 3

(***************************************************************************)
(* JavaScript values.                                                      *)
(***************************************************************************)
\* null for a state cell that holds an object (Project | null, APU | null).
Null == [null |-> TRUE]
\* null for a state cell that holds a string (string | null).
NullId == "<null>"

\* `x ? .. : ..' on a string-or-null: null and the empty string are falsy.
TruthyStr(s) == s # NullId /\ s # ""

\* String.prototype.trim on the names a user can type.
Trim(s) == IF s = "  " THEN "" ELSE s

\* Date.now().toString()
NewId(t) == ToString(t)

ResM == [id |-> "r1", name |-> "cemento", unit |-> "kg", price |-> 100,
         quantity |-> 2, type |-> "Material"]

NEW_APU_TEMPLATE ==
    [id |-> "", code |-> "NEW-001", description |-> "", unit |-> "unid",
     quantity |-> 1, resources |-> <<>>, indirectsPercentage |-> 15,
     profitPercentage |-> 10, category |-> "General"]

\* Variant of Push that puts the item first: [item, ...list]
PushFront(list, item) == <<item>> \o list

\* [...list, item]
Push(list, item) == Append(list, item)

\* list.map(x => x.id === id ? y : x)
RECURSIVE MapReplace(_, _, _)
MapReplace(list, id, y) ==
    IF list = <<>> THEN <<>>
    ELSE <<IF Head(list).id = id THEN y ELSE Head(list)>>
             \o MapReplace(Tail(list), id, y)

\* Variant of FilterOut with the test inverted (=== for !==).
RECURSIVE FilterOutInverted(_, _)
FilterOutInverted(list, id) ==
    IF list = <<>> THEN <<>>
    ELSE (IF Head(list).id = id THEN <<Head(list)>> ELSE <<>>)
             \o FilterOutInverted(Tail(list), id)

\* list.filter(x => x.id !== id)
RECURSIVE FilterOut(_, _)
FilterOut(list, id) ==
    IF list = <<>> THEN <<>>
    ELSE (IF Head(list).id # id THEN <<Head(list)>> ELSE <<>>)
             \o FilterOut(Tail(list), id)

\* list.find(x => x.id === id): the index of the first match, 0 when none.
FindIndex(list, id) ==
    IF \E i \in 1..Len(list) : list[i].id = id
    THEN CHOOSE i \in 1..Len(list) :
             /\ list[i].id = id
             /\ \A j \in 1..(i - 1) : list[j].id # id
    ELSE 0

\* { ...obj, [field]: value }
Spread(obj, field, value) ==
    [k \in (DOMAIN obj) \cup {field} |-> IF k = field THEN value ELSE obj[k]]

(***************************************************************************)
(* JSON text.  A text is either malformed or the serialisation of a value; *)
(* a parsed value carries its JavaScript type.                             *)
(***************************************************************************)
JsNumber(n) == [type |-> "number", v |-> n]
JsString(s) == [type |-> "string", v |-> s]
JsNull      == [type |-> "null"]
JsObject(r) == [type |-> "object", v |-> r]
JsArray(s)  == [type |-> "array", v |-> s]

Malformed == [text |-> "malformed"]

\* JSON.stringify(value)
JsonStringify(value) == [text |-> "json", value |-> value]

\* JSON.parse(text) throws a SyntaxError
ParseThrows(text) == text.text # "json"

\* JSON.parse(text) when it does not throw
JsonParse(text) == text.value

\* Array.isArray(json)
IsArray(json) == json.type = "array"

\* Variant of PropertyReadThrows in which null reads as an empty object.
PropertyReadNeverThrows(json) == FALSE

\* Reading a property of null throws a TypeError.
PropertyReadThrows(json) == json.type = "null"

\* Variant of IsProjectJson that tests the name only.
IsProjectJsonByName(json) ==
    /\ json.type = "object"
    /\ "name" \in DOMAIN json.v
    /\ json.v.name # ""

\* json.apus && json.name  (handleFileChange): both properties truthy.
\* An array or an object is truthy, a string is truthy unless empty; a
\* number, a string or an array carries neither property.
IsProjectJson(json) ==
    /\ json.type = "object"
    /\ "apus" \in DOMAIN json.v
    /\ "name" \in DOMAIN json.v
    /\ json.v.name # ""

(***************************************************************************)
(* The files a user can select.                                            *)
(***************************************************************************)
ApuX == [id |-> "1", code |-> "X-1", description |-> "zapata", unit |-> "m3",
         quantity |-> 2, resources |-> <<ResM>>, indirectsPercentage |-> 15,
         profitPercentage |-> 10, category |-> "General"]

ProjA == [id |-> "1", name |-> "A", lastModified |-> 1, apus |-> <<>>]
ProjB == [id |-> "9", name |-> "B", lastModified |-> 1, apus |-> <<ApuX>>,
          location |-> "loc", client |-> "cli"]
ProjC == [id |-> "9", name |-> "C", lastModified |-> 1, apus |-> <<>>]
ProjNameless == [id |-> "7", name |-> "", lastModified |-> 1,
                 apus |-> <<ApuX>>]

FileMalformed == Malformed
FileNumber    == JsonStringify(JsNumber(5))
FileString    == JsonStringify(JsString("abc"))
FileNull      == JsonStringify(JsNull)
FileNoApus    == JsonStringify(JsObject([name |-> "A"]))
FileNoName    == JsonStringify(JsObject([apus |-> <<>>]))
FileEmptyName == JsonStringify(JsObject([name |-> "", apus |-> <<>>]))
FileProjectA  == JsonStringify(JsObject(ProjA))
FileProjectB  == JsonStringify(JsObject([name |-> "B", apus |-> <<ApuX>>]))
FileBackup1   == JsonStringify(JsArray(<<ProjC>>))
FileBackup2   == JsonStringify(JsArray(<<ProjA, ProjB>>))
FileLegacy    == JsonStringify(JsArray(<<ApuX>>))
FileBackupNameless == JsonStringify(JsArray(<<ProjNameless>>))

Files == {FileMalformed, FileNumber, FileString, FileNull, FileNoApus,
          FileNoName, FileEmptyName, FileProjectA, FileProjectB,
          FileBackup1, FileBackup2, FileLegacy}

\* What the user types as a project name.
Names == {"A", "  "}

\* alert(...) texts
AlertImported      == "Proyecto importado exitosamente."
AlertUnrecognized  == "Formato no reconocido."
AlertReadError     == "Error al leer el archivo."
AlertRestored      == "Copia de seguridad restaurada exitosamente."
AlertInvalidBackup == "El archivo no es una copia de seguridad válida."
NoAlert            == ""

(***************************************************************************)
(* State.                                                                  *)
(***************************************************************************)
VARIABLES
    projects,          \* useState<Project[]>: the in-memory store
    storage,           \* localStorage['arquicostos-projects']: Null or a text
    currentProject,    \* useState<Project | null>
    projectAPUs,       \* useState<APU[]>: the working view
    editingApuId,      \* useState<string | null>
    currentEditorAPU,  \* useState<APU | null>: the editor draft
    isGenerating,      \* useState(false)
    isCreatingProject, \* useState(false): the new-project modal is shown
    importPicker,      \* the file dialog of the hidden import input is open
    projectToDelete,   \* useState<Project | null>
    apuToDelete,       \* useState<APU | null>
    pendingAi,         \* the closure of a handleAiGenerate call that awaits
    reads,             \* FileReader reads in flight, per entry point
    now,               \* Date.now()
    alerted,           \* the alert(...) of the handler that ran last
    downloaded         \* the file the last export saved, with its origin

vars == <<projects, storage, currentProject, projectAPUs, editingApuId,
          currentEditorAPU, isGenerating, projectToDelete, apuToDelete,
          pendingAi, reads, now, alerted, downloaded, isCreatingProject,
          importPicker>>

storeVars  == <<projects, storage>>
viewVars   == <<currentProject, projectAPUs, editingApuId>>
modalVars  == <<projectToDelete, apuToDelete>>
aiVars     == <<isGenerating, pendingAi>>

\* The persisted document of a store.
Persisted(store) == JsonStringify(JsArray(store))

\* useEffect on mount: the store a start finds in localStorage.
LoadOnStart(saved) ==
    IF saved = Null THEN <<>>
    ELSE IF ParseThrows(saved) THEN <<>>
    ELSE JsonParse(saved).v

Init ==
    /\ projects = LoadOnStart(Null)
    /\ storage = Null
    /\ currentProject = Null
    /\ projectAPUs = <<>>
    /\ editingApuId = NullId
    /\ currentEditorAPU = Null
    /\ isGenerating = FALSE
    /\ projectToDelete = Null
    /\ apuToDelete = Null
    /\ pendingAi = Null
    /\ reads = [import |-> 0, restore |-> 0]
    /\ now = 1
    /\ alerted = NoAlert
    /\ downloaded = Null
    /\ isCreatingProject = FALSE
    /\ importPicker = FALSE

(***************************************************************************)
(* Rendering.  A render that throws unmounts the application: no handler   *)
(* is reachable any more until the page is loaded again.                   *)
(***************************************************************************)
\* calculateUnitPrice reads apu.resources.reduce
ApuRenders(apu) == "resources" \in DOMAIN apu

\* renderDashboard: calculateTotalFromList(project.apus), project.apus.length
ProjectRenders(p) ==
    /\ "apus" \in DOMAIN p
    /\ \A i \in 1..Len(p.apus) : ApuRenders(p.apus[i])

RenderThrows ==
    IF currentProject = Null
    THEN \E i \in 1..Len(projects) : ~ProjectRenders(projects[i])
    ELSE \E i \in 1..Len(projectAPUs) : ~ApuRenders(projectAPUs[i])

\* The tree is mounted: no render has thrown.
Mounted == ~RenderThrows

\* No overlay takes the clicks: no modal of the page is shown and the file
\* dialog of the browser, which is modal to the page, is closed.
NoModal ==
    /\ ~isCreatingProject /\ projectToDelete = Null /\ apuToDelete = Null
    /\ ~importPicker

OnDashboard == ~RenderThrows /\ NoModal /\ currentProject = Null
InListView  == ~RenderThrows /\ NoModal /\ currentProject # Null
                 /\ ~TruthyStr(editingApuId)
InEditor    == ~RenderThrows /\ NoModal /\ currentProject # Null
                 /\ TruthyStr(editingApuId) /\ currentEditorAPU # Null

(***************************************************************************)
(* The clock.                                                              *)
(***************************************************************************)
Tick ==
    /\ now < MaxTime
    /\ now' = now + 1
    /\ UNCHANGED <<storeVars, viewVars, currentEditorAPU, modalVars, aiVars,
                   reads, alerted>>
    /\ UNCHANGED <<downloaded, isCreatingProject, importPicker>>

(***************************************************************************)
(* Project management handlers.                                            *)
(***************************************************************************)
\* The project handleConfirmCreateProject builds.
NewProject(name, t) ==
    [id |-> NewId(t), name |-> name, lastModified |-> t, apus |-> <<>>]

\* handleOpenCreateProjectModal: the "Nuevo Proyecto" buttons of the dashboard
OpenCreateProjectModal ==
    /\ OnDashboard
    /\ isCreatingProject' = TRUE
    /\ UNCHANGED <<storeVars, viewVars, currentEditorAPU, projectToDelete,
                   apuToDelete, aiVars, reads, now>>
    /\ alerted' = NoAlert
    /\ UNCHANGED <<downloaded, importPicker>>

\* The Cancelar button of the new-project modal.
CancelCreateProject ==
    /\ ~RenderThrows
    /\ isCreatingProject
    /\ isCreatingProject' = FALSE
    /\ UNCHANGED <<storeVars, viewVars, currentEditorAPU, projectToDelete,
                   apuToDelete, aiVars, reads, now>>
    /\ alerted' = NoAlert
    /\ UNCHANGED <<downloaded, importPicker>>

\* handleConfirmCreateProject, with newProjectName = name.  The modal is
\* rendered over whatever view is shown.
ConfirmCreateProject(name, cap) ==
    /\ ~RenderThrows
    /\ isCreatingProject
    /\ IF Trim(name) = ""
       THEN UNCHANGED <<storeVars, viewVars, isCreatingProject>>
       ELSE /\ Len(projects) < cap
            /\ LET newProject == NewProject(name, now)
                   updated    == Push(projects, newProject)
               IN  /\ projects' = updated
                   /\ storage' = Persisted(updated)
                   /\ currentProject' = newProject
                   /\ projectAPUs' = <<>>
                   /\ editingApuId' = NullId
                   /\ isCreatingProject' = FALSE
    /\ UNCHANGED <<currentEditorAPU, projectToDelete, apuToDelete, aiVars,
                   reads, now>>
    /\ alerted' = NoAlert
    /\ UNCHANGED <<downloaded, importPicker>>

\* handleDeleteProjectClick(e, projects[i])
DeleteProjectClick(i) ==
    /\ OnDashboard
    /\ i \in 1..Len(projects)
    /\ projectToDelete' = projects[i]
    /\ UNCHANGED <<storeVars, viewVars, currentEditorAPU, apuToDelete,
                   aiVars, reads, now>>
    /\ alerted' = NoAlert
    /\ UNCHANGED <<downloaded, isCreatingProject, importPicker>>

\* The Cancelar button of the delete-project modal.
CancelDeleteProject ==
    /\ ~RenderThrows
    /\ projectToDelete # Null
    /\ projectToDelete' = Null
    /\ UNCHANGED <<storeVars, viewVars, currentEditorAPU, apuToDelete,
                   aiVars, reads, now>>
    /\ alerted' = NoAlert
    /\ UNCHANGED <<downloaded, isCreatingProject, importPicker>>

\* handleConfirmDeleteProject
ConfirmDeleteProject ==
    /\ ~RenderThrows
    /\ projectToDelete # Null
    /\ LET updated == FilterOut(projects, projectToDelete.id)
       IN  /\ projects' = updated
           /\ storage' = Persisted(updated)
    /\ projectToDelete' = Null
    /\ UNCHANGED <<viewVars, currentEditorAPU, apuToDelete, aiVars, reads,
                   now>>
    /\ alerted' = NoAlert
    /\ UNCHANGED <<downloaded, isCreatingProject, importPicker>>

\* Variant of OpenProject that stamps the opened project and persists it.
OpenProjectStamping(i) ==
    /\ OnDashboard
    /\ i \in 1..Len(projects)
    /\ LET opened  == Spread(projects[i], "lastModified", now + 1)
           updated == MapReplace(projects, opened.id, opened)
       IN  /\ currentProject' = opened
           /\ projectAPUs' = opened.apus
           /\ projects' = updated
           /\ storage' = Persisted(updated)
    /\ editingApuId' = NullId
    /\ UNCHANGED <<currentEditorAPU, modalVars, aiVars, reads, now>>
    /\ alerted' = NoAlert
    /\ UNCHANGED <<downloaded, isCreatingProject, importPicker>>

\* handleOpenProject(projects[i])
OpenProject(i) ==
    /\ OnDashboard
    /\ i \in 1..Len(projects)
    /\ currentProject' = projects[i]
    /\ projectAPUs' = projects[i].apus
    /\ editingApuId' = NullId
    /\ UNCHANGED <<storeVars, currentEditorAPU, modalVars, aiVars, reads,
                   now>>
    /\ alerted' = NoAlert
    /\ UNCHANGED <<downloaded, isCreatingProject, importPicker>>

\* handleCloseProject (the sidebar button, the back arrow of the list view)
CloseProject ==
    /\ ~RenderThrows
    /\ NoModal
    /\ currentProject # Null
    /\ currentProject' = Null
    /\ projectAPUs' = <<>>
    /\ editingApuId' = NullId
    /\ UNCHANGED <<storeVars, currentEditorAPU, modalVars, aiVars, reads,
                   now>>
    /\ alerted' = NoAlert
    /\ UNCHANGED <<downloaded, isCreatingProject, importPicker>>

\* The page is loaded again: every useState cell starts from its initial
\* value, reads and requests in flight are gone, the mount effect loads
\* the store from localStorage.
Reload ==
    /\ projects' = LoadOnStart(storage)
    /\ currentProject' = Null
    /\ projectAPUs' = <<>>
    /\ editingApuId' = NullId
    /\ currentEditorAPU' = Null
    /\ isGenerating' = FALSE
    /\ projectToDelete' = Null
    /\ apuToDelete' = Null
    /\ pendingAi' = Null
    /\ reads' = [import |-> 0, restore |-> 0]
    /\ alerted' = NoAlert
    /\ isCreatingProject' = FALSE
    /\ UNCHANGED <<storage, now>>
    /\ importPicker' = FALSE
    /\ UNCHANGED downloaded

(***************************************************************************)
(* Import and restore.                                                     *)
(***************************************************************************)
\* { ...json, id: Date.now().toString() }
ImportedProject(json, t) == Spread(json.v, "id", NewId(t))

\* The project that wraps a top-level array on the import path.
LegacyProject(json, t) ==
    [id |-> NewId(t), name |-> "Proyecto Importado", lastModified |-> t,
     apus |-> json.v]

\* The branch reader.onload of handleFileChange takes on a file content.
ImportBranch(text) ==
    IF ParseThrows(text) THEN "throws"
    ELSE LET json == JsonParse(text)
         IN  IF PropertyReadThrows(json) THEN "throws"
             ELSE IF IsProjectJson(json) THEN "project"
             ELSE IF IsArray(json) THEN "legacy"
             ELSE "unrecognized"

\* The branch reader.onload of handleImportBackup takes on a file content.
RestoreBranch(text) ==
    IF ParseThrows(text) THEN "throws"
    ELSE IF IsArray(JsonParse(text)) THEN "replace"
    ELSE "invalid"

\* A project without its id: what an import keeps of the file.
Content(p) == [k \in (DOMAIN p) \ {"id"} |-> p[k]]

\* Variant of ImportAppend that skips a project whose content is stored.
ImportAppendDeduplicated(prev, newProject) ==
    IF \E i \in 1..Len(prev) : Content(prev[i]) = Content(newProject)
    THEN prev ELSE Push(prev, newProject)

\* Variant of ImportAppend that overwrites the project of the same name.
ImportAppendByName(prev, newProject) ==
    IF \E i \in 1..Len(prev) : prev[i].name = newProject.name
    THEN [i \in 1..Len(prev) |->
             IF prev[i].name = newProject.name THEN newProject ELSE prev[i]]
    ELSE Push(prev, newProject)

\* setProjects(prev => [...prev, newProject]) of the import path
ImportAppend(prev, newProject) == Push(prev, newProject)

\* Variant of RestoreStore that merges the backup into the store.
RestoreStoreMerged(prev, json) == prev \o json.v

\* setProjects(json) of the restore path
RestoreStore(prev, json) == json.v

\* "Importar" of the dashboard: fileInputRef.current?.click() opens the
\* file dialog of the browser and the handler returns.
ClickImport ==
    /\ OnDashboard
    /\ importPicker' = TRUE
    /\ UNCHANGED <<storeVars, viewVars, currentEditorAPU, modalVars, aiVars,
                   reads, now>>
    /\ alerted' = NoAlert
    /\ UNCHANGED <<downloaded, isCreatingProject>>

\* The file dialog closes and handleFileChange runs up to
\* reader.readAsText: chosen = a file was selected.  The input is rendered
\* in every view, so the handler runs in the view the page shows by then.
SelectImportFile(chosen, cap) ==
    /\ ~RenderThrows
    /\ importPicker
    /\ importPicker' = FALSE
    /\ IF chosen
       THEN /\ reads.import + reads.restore < cap
            /\ reads' = [reads EXCEPT !.import = @ + 1]
       ELSE UNCHANGED reads
    /\ UNCHANGED <<storeVars, viewVars, currentEditorAPU, modalVars, aiVars,
                   now>>
    /\ alerted' = NoAlert
    /\ UNCHANGED <<downloaded, isCreatingProject>>

\* reader.onload of handleFileChange, the file read being `file'.  The
\* callback also runs after a render error has unmounted the tree:
\* setProjects and its updater are then dropped, the alert is raised.
ImportOnLoad(file, cap) ==
    /\ reads.import > 0
    /\ reads' = [reads EXCEPT !.import = @ - 1]
    /\ LET branch == ImportBranch(file)
           json   == JsonParse(file)
       IN  CASE branch = "project" ->
                  /\ IF RenderThrows
                     THEN UNCHANGED storeVars
                     ELSE /\ Len(projects) < cap
                          /\ LET updated ==
                                     ImportAppend(projects,
                                                  ImportedProject(json, now))
                             IN  /\ projects' = updated
                                 /\ storage' = Persisted(updated)
                  /\ alerted' = AlertImported
             [] branch = "legacy" ->
                  /\ IF RenderThrows
                     THEN UNCHANGED storeVars
                     ELSE /\ Len(projects) < cap
                          /\ LET updated ==
                                     ImportAppend(projects,
                                                  LegacyProject(json, now))
                             IN  /\ projects' = updated
                                 /\ storage' = Persisted(updated)
                  /\ alerted' = AlertImported
             [] branch = "unrecognized" ->
                  /\ UNCHANGED storeVars
                  /\ alerted' = AlertUnrecognized
             [] branch = "throws" ->
                  /\ UNCHANGED storeVars
                  /\ alerted' = AlertReadError
    /\ UNCHANGED <<viewVars, currentEditorAPU, modalVars, aiVars, now>>
    /\ UNCHANGED <<downloaded, isCreatingProject, importPicker>>

\* Variant of SelectBackupFile that reads the file whatever the answer.
SelectBackupFileUnconfirmed(chosen, confirmed) ==
    /\ ~RenderThrows
    /\ NoModal
    /\ IF chosen
       THEN /\ reads.import + reads.restore < MaxReads
            /\ reads' = [reads EXCEPT !.restore = @ + 1]
       ELSE UNCHANGED reads
    /\ UNCHANGED <<storeVars, viewVars, currentEditorAPU, modalVars, aiVars,
                   now>>
    /\ alerted' = NoAlert
    /\ UNCHANGED <<downloaded, isCreatingProject, importPicker>>

\* handleImportBackup up to reader.readAsText: chosen = a file was
\* selected, confirmed = the answer to window.confirm
SelectBackupFile(chosen, confirmed) ==
    /\ ~RenderThrows
    /\ NoModal
    /\ IF chosen /\ confirmed
       THEN /\ reads.import + reads.restore < MaxReads
            /\ reads' = [reads EXCEPT !.restore = @ + 1]
       ELSE UNCHANGED reads
    /\ UNCHANGED <<storeVars, viewVars, currentEditorAPU, modalVars, aiVars,
                   now>>
    /\ alerted' = NoAlert
    /\ UNCHANGED <<downloaded, isCreatingProject, importPicker>>

\* reader.onload of handleImportBackup, the file read being `file'.  After
\* a render error setProjects is dropped; localStorage is still written.
RestoreOnLoad(file) ==
    /\ reads.restore > 0
    /\ reads' = [reads EXCEPT !.restore = @ - 1]
    /\ LET branch == RestoreBranch(file)
       IN  CASE branch = "replace" ->
                  /\ projects' = IF RenderThrows THEN projects
                                 ELSE RestoreStore(projects, JsonParse(file))
                  /\ storage' = JsonStringify(JsonParse(file))
                  /\ alerted' = AlertRestored
             [] branch = "invalid" ->
                  /\ UNCHANGED storeVars
                  /\ alerted' = AlertInvalidBackup
             [] branch = "throws" ->
                  /\ UNCHANGED storeVars
                  /\ alerted' = AlertReadError
    /\ UNCHANGED <<viewVars, currentEditorAPU, modalVars, aiVars, now>>
    /\ UNCHANGED <<downloaded, isCreatingProject, importPicker>>

(***************************************************************************)
(* Export of the open project.                                             *)
(***************************************************************************)
\* JSON.stringify(currentProject, null, 2): the text of the download.
ExportedFile(project) == JsonStringify(JsObject(project))

\* handleExportJSON.  The download is kept with the project it was made
\* from and with whether the store held that project.
ExportJSON ==
    /\ InListView
    /\ downloaded' = [file    |-> ExportedFile(currentProject),
                      project |-> currentProject,
                      stored  |-> \E i \in 1..Len(projects) :
                                      projects[i] = currentProject]
    /\ UNCHANGED <<storeVars, viewVars, currentEditorAPU, modalVars, aiVars,
                   reads, now, isCreatingProject, importPicker>>
    /\ alerted' = NoAlert


(***************************************************************************)
(* APU management handlers.                                                *)
(***************************************************************************)
\* Variant of SaveProjectState that persists the list it found, not the
\* list it returns.
SaveProjectStateStaleWrite(cp, updatedAPUs) ==
    IF cp = Null
    THEN UNCHANGED <<currentProject, projectAPUs, projects, storage>>
    ELSE LET updatedProject == Spread(Spread(cp, "apus", updatedAPUs),
                                      "lastModified", now)
             newProjects == MapReplace(projects, updatedProject.id,
                                       updatedProject)
         IN  /\ currentProject' = updatedProject
             /\ projectAPUs' = updatedAPUs
             /\ projects' = newProjects
             /\ storage' = Persisted(projects)

\* Variant of SaveProjectState that leaves lastModified as it was.
SaveProjectStateKeepStamp(cp, updatedAPUs) ==
    IF cp = Null
    THEN UNCHANGED <<currentProject, projectAPUs, projects, storage>>
    ELSE LET updatedProject == Spread(cp, "apus", updatedAPUs)
             newProjects == MapReplace(projects, updatedProject.id,
                                       updatedProject)
         IN  /\ currentProject' = updatedProject
             /\ projectAPUs' = updatedAPUs
             /\ projects' = newProjects
             /\ storage' = Persisted(newProjects)

\* saveProjectState(updatedAPUs) of the render in which currentProject = cp
SaveProjectState(cp, updatedAPUs) ==
    IF cp = Null
    THEN UNCHANGED <<currentProject, projectAPUs, projects, storage>>
    ELSE LET updatedProject == Spread(Spread(cp, "apus", updatedAPUs),
                                      "lastModified", now)
             newProjects == MapReplace(projects, updatedProject.id,
                                       updatedProject)
         IN  /\ currentProject' = updatedProject
             /\ projectAPUs' = updatedAPUs
             /\ projects' = newProjects
             /\ storage' = Persisted(newProjects)

\* handleEditItem(projectAPUs[i].id)
EditItem(i) ==
    /\ InListView
    /\ i \in 1..Len(projectAPUs)
    /\ LET id == projectAPUs[i].id
           itemToEdit == projectAPUs[FindIndex(projectAPUs, id)]
       IN  /\ currentEditorAPU' = itemToEdit
           /\ editingApuId' = id
    /\ UNCHANGED <<storeVars, currentProject, projectAPUs, modalVars, aiVars,
                   reads, now>>
    /\ alerted' = NoAlert
    /\ UNCHANGED <<downloaded, isCreatingProject, importPicker>>

\* The APU handleCreateItem builds.
NewItem(list, t) ==
    Spread(Spread(NEW_APU_TEMPLATE, "id", NewId(t)),
           "code", "CON-" \o ToString(Len(list) + 1))

\* handleCreateItem
CreateItem(cap) ==
    /\ InListView
    /\ Len(projectAPUs) < cap
    /\ LET newItem == NewItem(projectAPUs, now)
       IN  /\ SaveProjectState(currentProject, Push(projectAPUs, newItem))
           /\ currentEditorAPU' = newItem
           /\ editingApuId' = newItem.id
    /\ UNCHANGED <<modalVars, aiVars, reads, now>>
    /\ alerted' = NoAlert
    /\ UNCHANGED <<downloaded, isCreatingProject, importPicker>>

\* handleDeleteApuClick(e, projectAPUs[i]) from a row of the list view
DeleteApuClick(i) ==
    /\ InListView
    /\ i \in 1..Len(projectAPUs)
    /\ apuToDelete' = projectAPUs[i]
    /\ UNCHANGED <<storeVars, viewVars, currentEditorAPU, projectToDelete,
                   aiVars, reads, now>>
    /\ alerted' = NoAlert
    /\ UNCHANGED <<downloaded, isCreatingProject, importPicker>>

\* handleDeleteApuClick(e, currentEditorAPU) from the editor header
DeleteApuClickInEditor ==
    /\ InEditor
    /\ apuToDelete' = currentEditorAPU
    /\ UNCHANGED <<storeVars, viewVars, currentEditorAPU, projectToDelete,
                   aiVars, reads, now>>
    /\ alerted' = NoAlert
    /\ UNCHANGED <<downloaded, isCreatingProject, importPicker>>

\* The Cancelar button of the delete-APU modal.
CancelDeleteApu ==
    /\ ~RenderThrows
    /\ apuToDelete # Null
    /\ apuToDelete' = Null
    /\ UNCHANGED <<storeVars, viewVars, currentEditorAPU, projectToDelete,
                   aiVars, reads, now>>
    /\ alerted' = NoAlert
    /\ UNCHANGED <<downloaded, isCreatingProject, importPicker>>

\* handleConfirmDeleteApu
ConfirmDeleteApu ==
    /\ ~RenderThrows
    /\ apuToDelete # Null
    /\ LET id == apuToDelete.id
       IN  /\ SaveProjectState(currentProject, FilterOut(projectAPUs, id))
           /\ IF editingApuId = id
              THEN editingApuId' = NullId /\ currentEditorAPU' = Null
              ELSE UNCHANGED <<editingApuId, currentEditorAPU>>
    /\ apuToDelete' = Null
    /\ UNCHANGED <<projectToDelete, aiVars, reads, now>>
    /\ alerted' = NoAlert
    /\ UNCHANGED <<downloaded, isCreatingProject, importPicker>>

\* Variant of CommitDraft that moves the committed APU to the end.
CommitDraftMoveLast(apus, id, draft) ==
    IF \E i \in 1..Len(apus) : apus[i].id = id
    THEN Push(FilterOut(apus, id), draft)
    ELSE apus

\* Variant of CommitDraft that appends the draft when no APU has its id.
CommitDraftUpsert(apus, id, draft) ==
    IF \E i \in 1..Len(apus) : apus[i].id = id
    THEN MapReplace(apus, id, draft)
    ELSE Push(apus, draft)

\* projectAPUs.map(item => item.id === editingApuId ? currentEditorAPU : item)
CommitDraft(apus, id, draft) == MapReplace(apus, id, draft)

\* handleBackToList (the back arrow and the Guardar button of the editor)
BackToList ==
    /\ InEditor
    /\ SaveProjectState(currentProject,
                        CommitDraft(projectAPUs, editingApuId,
                                    currentEditorAPU))
    /\ editingApuId' = NullId
    /\ currentEditorAPU' = Null
    /\ UNCHANGED <<modalVars, aiVars, reads, now>>
    /\ alerted' = NoAlert
    /\ UNCHANGED <<downloaded, isCreatingProject, importPicker>>

(***************************************************************************)
(* Editor handlers.                                                        *)
(***************************************************************************)
\* What the editor inputs send to updateField.
FieldEdits == {<<"unit", "m2">>}

\* What the resource tables send to updateResources.
ResourceEdits == {<<ResM>>}

\* Variant of UpdateField that also saves the edited draft into the project.
UpdateFieldWriteThrough(field, value) ==
    /\ InEditor
    /\ currentEditorAPU' = Spread(currentEditorAPU, field, value)
    /\ SaveProjectState(currentProject,
                        MapReplace(projectAPUs, editingApuId,
                                   Spread(currentEditorAPU, field, value)))
    /\ UNCHANGED <<editingApuId, modalVars, aiVars, reads, now>>
    /\ alerted' = NoAlert
    /\ UNCHANGED <<downloaded, isCreatingProject, importPicker>>

\* updateField(field, value)
UpdateField(field, value) ==
    /\ InEditor
    /\ currentEditorAPU' = Spread(currentEditorAPU, field, value)
    /\ UNCHANGED <<storeVars, viewVars, modalVars, aiVars, reads, now>>
    /\ alerted' = NoAlert
    /\ UNCHANGED <<downloaded, isCreatingProject, importPicker>>

\* updateResources(newResources)
UpdateResources(newResources) ==
    /\ InEditor
    /\ currentEditorAPU' = Spread(currentEditorAPU, "resources", newResources)
    /\ UNCHANGED <<storeVars, viewVars, modalVars, aiVars, reads, now>>
    /\ alerted' = NoAlert
    /\ UNCHANGED <<downloaded, isCreatingProject, importPicker>>

(***************************************************************************)
(* AI generation.  generateApuFromDescription is an external service: it   *)
(* answers later with nothing or with an object of optional fields.        *)
(***************************************************************************)
Prompts == {"losa", "  "}

AiResults == {Null, [unit |-> "m2", resources |-> <<ResM>>]}

\* generated.description || fallback
OrElse(generated, field, fallback) ==
    IF field \in DOMAIN generated /\ generated[field] # ""
    THEN generated[field] ELSE fallback

\* generated.resources || []
ResourcesOrEmpty(generated) ==
    IF "resources" \in DOMAIN generated THEN generated.resources ELSE <<>>

\* The APU handleAiGenerate appends in the list view.
GeneratedItem(generated, t) ==
    [NEW_APU_TEMPLATE EXCEPT
        !.id = NewId(t),
        !.description = OrElse(generated, "description", ""),
        !.unit = OrElse(generated, "unit", "unid"),
        !.resources = ResourcesOrEmpty(generated)]

\* Variant of ImprovedDraft that adds the returned resources to the draft's.
ImprovedDraftMerging(prev, generated) ==
    IF prev = Null THEN Null
    ELSE [prev EXCEPT
            !.description = OrElse(generated, "description", prev.description),
            !.unit = OrElse(generated, "unit", prev.unit),
            !.resources = prev.resources \o ResourcesOrEmpty(generated)]

\* The draft handleAiGenerate leaves in the editor.
ImprovedDraft(prev, generated) ==
    IF prev = Null THEN Null
    ELSE [prev EXCEPT
            !.description = OrElse(generated, "description", prev.description),
            !.unit = OrElse(generated, "unit", prev.unit),
            !.resources = ResourcesOrEmpty(generated)]

\* handleAiGenerate up to the await: the call keeps the state of its render
AiGenerate(prompt) ==
    /\ ~RenderThrows
    /\ NoModal
    /\ currentProject # Null
    /\ ~isGenerating
    /\ IF Trim(prompt) = ""
       THEN UNCHANGED aiVars
       ELSE /\ isGenerating' = TRUE
            /\ pendingAi' = [editingApuId |-> editingApuId,
                             projectAPUs |-> projectAPUs,
                             currentProject |-> currentProject]
    /\ UNCHANGED <<storeVars, viewVars, currentEditorAPU, modalVars, reads,
                   now>>
    /\ alerted' = NoAlert
    /\ UNCHANGED <<downloaded, isCreatingProject, importPicker>>

\* Variant of AiAnswer without the test `if (generated)'.
AiAnswerUnguarded(generated, cap) ==
    /\ pendingAi # Null
    /\ IF RenderThrows
       THEN /\ UNCHANGED <<storeVars, currentProject, projectAPUs,
                           currentEditorAPU, isGenerating>>
       ELSE IF ~TruthyStr(pendingAi.editingApuId)
       THEN /\ Len(pendingAi.projectAPUs) < cap
            /\ SaveProjectState(pendingAi.currentProject,
                                Push(pendingAi.projectAPUs,
                                     GeneratedItem(generated, now)))
            /\ UNCHANGED currentEditorAPU
            /\ isGenerating' = FALSE
       ELSE /\ currentEditorAPU' = ImprovedDraft(currentEditorAPU, generated)
            /\ UNCHANGED <<storeVars, currentProject, projectAPUs>>
            /\ isGenerating' = FALSE
    /\ pendingAi' = Null
    /\ UNCHANGED <<editingApuId, modalVars, reads, now>>
    /\ alerted' = NoAlert
    /\ UNCHANGED <<downloaded, isCreatingProject, importPicker>>

\* handleAiGenerate after the await, the service having answered
\* `generated'.  The continuation also runs after a render error has
\* unmounted the tree: its state updates are then dropped.
AiAnswer(generated, cap) ==
    /\ pendingAi # Null
    /\ IF RenderThrows
       THEN /\ UNCHANGED <<storeVars, currentProject, projectAPUs,
                           currentEditorAPU, isGenerating>>
       ELSE IF generated = Null
       THEN /\ UNCHANGED <<storeVars, currentProject, projectAPUs,
                           currentEditorAPU>>
            /\ isGenerating' = FALSE
       ELSE IF ~TruthyStr(pendingAi.editingApuId)
       THEN /\ Len(pendingAi.projectAPUs) < cap
            /\ SaveProjectState(pendingAi.currentProject,
                                Push(pendingAi.projectAPUs,
                                     GeneratedItem(generated, now)))
            /\ UNCHANGED currentEditorAPU
            /\ isGenerating' = FALSE
       ELSE /\ currentEditorAPU' = ImprovedDraft(currentEditorAPU, generated)
            /\ UNCHANGED <<storeVars, currentProject, projectAPUs>>
            /\ isGenerating' = FALSE
    /\ pendingAi' = Null
    /\ UNCHANGED <<editingApuId, modalVars, reads, now>>
    /\ alerted' = NoAlert
    /\ UNCHANGED <<downloaded, isCreatingProject, importPicker>>

\* The promise of generateApuFromDescription(prompt) rejects: the await
\* throws, nothing catches it and the rest of handleAiGenerate never runs.
AiFails ==
    /\ pendingAi # Null
    /\ pendingAi' = Null
    /\ UNCHANGED <<storeVars, viewVars, currentEditorAPU, isGenerating,
                   modalVars, reads, now>>
    /\ alerted' = NoAlert
    /\ UNCHANGED <<downloaded, isCreatingProject, importPicker>>

(***************************************************************************)
(* The cost engine.  Prices, quantities and percentages are integers and   *)
(* amounts are exact: a division by 100 is kept as a change of unit, so a  *)
(* direct cost counts units of 1 and a unit price or a total counts units  *)
(* of 1/10000 (two divisions by 100).  316.25 is 3162500.                  *)
(***************************************************************************)
\* apu.resources.reduce((acc, curr) => acc + (curr.price * curr.quantity), 0)
RECURSIVE ReduceDirectCost(_, _)
ReduceDirectCost(resources, acc) ==
    IF resources = <<>> THEN acc
    ELSE ReduceDirectCost(Tail(resources),
                          acc + Head(resources).price * Head(resources).quantity)

\* Variant of calculateUnitPrice whose markups are flat amounts.
calculateUnitPriceFlatMarkup(apu) ==
    LET directCost == ReduceDirectCost(apu.resources, 0)
    IN  directCost * 10000 + apu.indirectsPercentage * 100
          + apu.profitPercentage * 100

\* Variant of calculateUnitPrice whose profit is taken on the direct cost.
calculateUnitPriceSimpleProfit(apu) ==
    LET directCost == ReduceDirectCost(apu.resources, 0)
    IN  directCost * 10000 + directCost * apu.indirectsPercentage * 100
          + directCost * apu.profitPercentage * 100

\* calculateUnitPrice(apu), in units of 1/10000
calculateUnitPrice(apu) ==
    LET directCost == ReduceDirectCost(apu.resources, 0)
        \* directCost * (apu.indirectsPercentage / 100), in units of 1/100
        indirects  == directCost * apu.indirectsPercentage
        \* (directCost + indirects) * (apu.profitPercentage / 100),
        \* in units of 1/10000
        profit     == (directCost * 100 + indirects) * apu.profitPercentage
    IN  directCost * 10000 + indirects * 100 + profit

\* Variant of ReduceTotal that leaves out apu.quantity.
RECURSIVE ReduceTotalOfUnitPrices(_, _)
ReduceTotalOfUnitPrices(list, acc) ==
    IF list = <<>> THEN acc
    ELSE ReduceTotalOfUnitPrices(Tail(list),
                                 acc + calculateUnitPrice(Head(list)))

\* list.reduce((acc, apu) => acc + (calculateUnitPrice(apu) * apu.quantity), 0)
RECURSIVE ReduceTotal(_, _)
ReduceTotal(list, acc) ==
    IF list = <<>> THEN acc
    ELSE ReduceTotal(Tail(list),
                     acc + calculateUnitPrice(Head(list)) * Head(list).quantity)

\* calculateTotalFromList(list), in units of 1/10000
calculateTotalFromList(list) == ReduceTotal(list, 0)

\* ResourceType.MATERIAL
MATERIAL == "Material"

\* The price * quantity of the resources of one type, first to last.
RECURSIVE ResourcesCostOfType(_, _)
ResourcesCostOfType(resources, type) ==
    IF resources = <<>> THEN 0
    ELSE (IF Head(resources).type = type
          THEN Head(resources).price * Head(resources).quantity ELSE 0)
           + ResourcesCostOfType(Tail(resources), type)

\* Variant of categoryCost that applies each APU's markup to its share.
RECURSIVE categoryCostMarkedUp(_, _)
categoryCostMarkedUp(apus, type) ==
    IF apus = <<>> THEN 0
    ELSE (ResourcesCostOfType(Head(apus).resources, type)
            * (100 + Head(apus).indirectsPercentage)
            * (100 + Head(apus).profitPercentage)) \div 10000
           + categoryCostMarkedUp(Tail(apus), type)

\* aggregate(apus): the subtotal of one category (materialCost, laborCost,
\* equipmentCost, transportCost of ProjectStats), in units of 1.
RECURSIVE categoryCost(_, _)
categoryCost(apus, type) ==
    IF apus = <<>> THEN 0
    ELSE ResourcesCostOfType(Head(apus).resources, type)
           + categoryCost(Tail(apus), type)

(***************************************************************************)
(* Specifications.  SpecStore: the project store under every file of       *)
(* Files.  Spec: the whole application, the files read being EditorFiles.  *)
(***************************************************************************)
EditorFiles == {FileProjectA, FileBackup1}

StoreStep(files, cap) ==
    \/ Tick
    \/ OpenCreateProjectModal
    \/ CancelCreateProject
    \/ \E name \in Names : ConfirmCreateProject(name, cap)
    \/ \E i \in 1..MaxProjects : DeleteProjectClick(i)
    \/ CancelDeleteProject
    \/ ConfirmDeleteProject
    \/ \E i \in 1..MaxProjects : OpenProject(i)
    \/ CloseProject
    \/ Reload
    \/ ClickImport
    \/ \E chosen \in BOOLEAN : SelectImportFile(chosen, MaxReads)
    \/ \E file \in files : ImportOnLoad(file, cap)
    \/ \E chosen, confirmed \in BOOLEAN : SelectBackupFile(chosen, confirmed)
    \/ \E file \in files : RestoreOnLoad(file)

ApuStep ==
    \/ \E i \in 1..MaxApus : EditItem(i)
    \/ CreateItem(MaxApus)
    \/ \E i \in 1..MaxApus : DeleteApuClick(i)
    \/ DeleteApuClickInEditor
    \/ CancelDeleteApu
    \/ ConfirmDeleteApu
    \/ BackToList
    \/ \E e \in FieldEdits : UpdateField(e[1], e[2])
    \/ \E r \in ResourceEdits : UpdateResources(r)
    \/ \E prompt \in Prompts : AiGenerate(prompt)
    \/ \E generated \in AiResults : AiAnswer(generated, MaxApus)
    \/ AiFails

NextStore == StoreStep(Files, MaxProjects)

SpecStore == Init /\ [][NextStore]_vars

Next == StoreStep(EditorFiles, MaxEditorProjects) \/ ApuStep

Spec == Init /\ [][Next]_vars

(***************************************************************************)
(* SpecCost: the cost engine on a stored project.  The application starts  *)
(* on a persisted store of one project whose APUs are drawn from CostApus; *)
(* the editor then changes markups, quantity and resources.                *)
(***************************************************************************)
\* APUs of the stored project.
MaxCostApus == 2

ResPeon == [id |-> "r2", name |-> "peon", unit |-> "jor", price |-> 50,
            quantity |-> 1, type |-> "Mano de Obra"]
ResNeg  == [id |-> "r3", name |-> "descuento", unit |-> "pza", price |-> -20,
            quantity |-> 3, type |-> "Material"]

ApuEmpty    == [NEW_APU_TEMPLATE EXCEPT !.id = "a0"]
ApuExample  == [NEW_APU_TEMPLATE EXCEPT !.id = "a1", !.code = "CON-1",
                                        !.resources = <<ResM, ResPeon>>]
ApuNegative == [NEW_APU_TEMPLATE EXCEPT !.id = "a2", !.code = "CON-2",
                                        !.resources = <<ResNeg, ResPeon>>]

CostApus == {ApuEmpty, ApuExample, ApuNegative}

\* The APU lists of at most MaxCostApus APUs of CostApus, ids distinct.
CostApuLists ==
    {list \in UNION {[1..n -> CostApus] : n \in 0..MaxCostApus} :
        \A i, j \in 1..Len(list) : i # j => list[i] # list[j]}

CostProject(apus) ==
    [id |-> "1", name |-> "A", lastModified |-> 1, apus |-> apus]

\* What the editor sends to updateField and updateResources.
CostFieldEdits ==
    {<<"indirectsPercentage", 0>>, <<"profitPercentage", 25>>,
     <<"quantity", 3>>}
CostResourceEdits == {<<>>}

InitCost ==
    \E apus \in CostApuLists :
        /\ storage = Persisted(<<CostProject(apus)>>)
        /\ projects = LoadOnStart(storage)
        /\ currentProject = Null
        /\ projectAPUs = <<>>
        /\ editingApuId = NullId
        /\ currentEditorAPU = Null
        /\ isGenerating = FALSE
        /\ projectToDelete = Null
        /\ apuToDelete = Null
        /\ pendingAi = Null
        /\ reads = [import |-> 0, restore |-> 0]
        /\ now = 1
        /\ alerted = NoAlert
        /\ downloaded = Null
        /\ isCreatingProject = FALSE
        /\ importPicker = FALSE

NextCost ==
    \/ \E i \in 1..MaxProjects : OpenProject(i)
    \/ CloseProject
    \/ \E i \in 1..MaxCostApus : EditItem(i)
    \/ \E e \in CostFieldEdits : UpdateField(e[1], e[2])
    \/ \E r \in CostResourceEdits : UpdateResources(r)
    \/ BackToList

SpecCost == InitCost /\ [][NextCost]_vars

(***************************************************************************)
(* SpecApu: one project and its APU list, without file reads: adds by hand *)
(* and by AI generation, commits and deletions on a list of up to          *)
(* MaxListApus APUs.                                                       *)
(***************************************************************************)
NextApu ==
    \/ Tick
    \/ OpenCreateProjectModal
    \/ CancelCreateProject
    \/ \E name \in Names : ConfirmCreateProject(name, MaxEditorProjects)
    \/ \E i \in 1..MaxEditorProjects : OpenProject(i)
    \/ CloseProject
    \/ \E i \in 1..MaxListApus : EditItem(i)
    \/ CreateItem(MaxListApus)
    \/ \E i \in 1..MaxListApus : DeleteApuClick(i)
    \/ DeleteApuClickInEditor
    \/ CancelDeleteApu
    \/ ConfirmDeleteApu
    \/ BackToList
    \/ \E prompt \in Prompts : AiGenerate(prompt)
    \/ \E generated \in AiResults : AiAnswer(generated, MaxListApus)
    \/ AiFails

SpecApu == Init /\ [][NextApu]_vars

(***************************************************************************)
(* SpecDraft: one project, one APU and its editor draft under every shape  *)
(* of answer of the generation service.                                    *)
(***************************************************************************)
\* Answers of the service: nothing, every field, one field, empty fields.
DraftAiResults ==
    {Null,
     [unit |-> "m2", resources |-> <<ResM>>],
     [description |-> "losa"],
     [resources |-> <<ResPeon>>],
     [description |-> "", unit |-> "", resources |-> <<>>]}

NextDraft ==
    \/ OpenCreateProjectModal
    \/ CancelCreateProject
    \/ \E name \in Names : ConfirmCreateProject(name, MaxEditorProjects)
    \/ \E i \in 1..MaxEditorProjects : OpenProject(i)
    \/ CloseProject
    \/ \E i \in 1..MaxApus : EditItem(i)
    \/ CreateItem(MaxApus)
    \/ BackToList
    \/ \E e \in FieldEdits : UpdateField(e[1], e[2])
    \/ \E r \in ResourceEdits : UpdateResources(r)
    \/ \E prompt \in Prompts : AiGenerate(prompt)
    \/ \E generated \in DraftAiResults : AiAnswer(generated, MaxApus)
    \/ AiFails

SpecDraft == Init /\ [][NextDraft]_vars

(***************************************************************************)
(* SpecExport: the open project is exported and the download is imported.  *)
(* The store is filled by creation and by the restore of backups.          *)
(***************************************************************************)
ExportBackups == {FileBackup2, FileBackupNameless}

NextExport ==
    \/ Tick
    \/ OpenCreateProjectModal
    \/ CancelCreateProject
    \/ \E name \in Names : ConfirmCreateProject(name, MaxProjects)
    \/ \E i \in 1..MaxProjects : OpenProject(i)
    \/ CloseProject
    \/ \E chosen, confirmed \in BOOLEAN : SelectBackupFile(chosen, confirmed)
    \/ \E file \in ExportBackups : RestoreOnLoad(file)
    \/ CreateItem(MaxApus)
    \/ ExportJSON
    \/ ClickImport
    \/ \E chosen \in BOOLEAN : SelectImportFile(chosen, MaxReads)
    \/ downloaded # Null /\ ImportOnLoad(downloaded.file, MaxProjects)

SpecExport == Init /\ [][NextExport]_vars

(***************************************************************************)
(* SpecAi: requests to the generation service and every outcome of the     *)
(* call.  The call settles: a pending call is answered or fails.           *)
(***************************************************************************)
AiSettles ==
    \/ \E generated \in AiResults : AiAnswer(generated, MaxApus)
    \/ AiFails

NextAi ==
    \/ Tick
    \/ OpenCreateProjectModal
    \/ CancelCreateProject
    \/ \E name \in Names : ConfirmCreateProject(name, MaxEditorProjects)
    \/ \E i \in 1..MaxEditorProjects : OpenProject(i)
    \/ CloseProject
    \/ \E i \in 1..MaxApus : EditItem(i)
    \/ CreateItem(MaxApus)
    \/ BackToList
    \/ \E prompt \in Prompts : AiGenerate(prompt)
    \/ \E generated \in AiResults : AiAnswer(generated, MaxApus)
    \/ AiFails

SpecAi == Init /\ [][NextAi]_vars /\ WF_vars(AiSettles)

(***************************************************************************)
(* SpecOverlap: file imports whose reads are in flight together and while  *)
(* a project is created, opened and given APUs.                            *)
(***************************************************************************)
OverlapFiles == {FileProjectA, FileProjectB, FileLegacy}

NextOverlap ==
    \/ Tick
    \/ OpenCreateProjectModal
    \/ CancelCreateProject
    \/ \E name \in Names : ConfirmCreateProject(name, MaxEditorProjects)
    \/ \E i \in 1..MaxOverlapProjects : OpenProject(i)
    \/ CloseProject
    \/ ClickImport
    \/ \E chosen \in BOOLEAN : SelectImportFile(chosen, MaxOverlapReads)
    \/ \E file \in OverlapFiles : ImportOnLoad(file, MaxOverlapProjects)
    \/ \E i \in 1..MaxApus : EditItem(i)
    \/ CreateItem(MaxApus)
    \/ BackToList

SpecOverlap == Init /\ [][NextOverlap]_vars

(***************************************************************************)
(* Properties of the store, the import and the restore (SpecStore).        *)
(***************************************************************************)
\* The project sequence held by the persisted document.
PersistedDoc == IF storage = Null THEN <<>> ELSE JsonParse(storage).v

HasId(list, id) == \E i \in 1..Len(list) : list[i].id = id

DistinctIds(list) ==
    \A i, j \in 1..Len(list) : i # j => list[i].id # list[j].id

\* The elements of list whose id is not id, in their order.
Others(list, id) == SelectSeq(list, LAMBDA x : x.id # id)

\* Files by shape.
FullBackupFiles    == {FileBackup1, FileBackup2}
SingleProjectFiles == {FileProjectA, FileProjectB}
LegacyListFiles    == {FileLegacy}
UnrecognizedFiles  == {FileNumber, FileString, FileNoApus, FileNoName,
                       FileEmptyName}

\* The projects a full backup file lists.
BackupProjects(file) ==
    IF file = FileBackup1 THEN <<ProjC>> ELSE <<ProjA, ProjB>>

\* C1: while the application is mounted, restoring a full backup of N
\* projects leaves exactly those N projects, in order and with their ids, in
\* the store and in the persisted document, whatever the store held;
\* restoring the same backup on top of its own result changes neither.
C1_RestoreReplacesStore ==
    [][\A file \in FullBackupFiles :
          (Mounted /\ RestoreOnLoad(file)) =>
             /\ projects' = BackupProjects(file)
             /\ PersistedDoc' = BackupProjects(file)
             /\ Len(projects') = Len(BackupProjects(file))
             /\ (projects = BackupProjects(file) =>
                    projects' = projects /\ storage' = storage)]_vars

C1_Witness ==
    /\ alerted = AlertRestored
    /\ projects = <<ProjA, ProjB>>
    /\ PersistedDoc = <<ProjA, ProjB>>
    /\ reads.restore = 0

\* C2: a creation or an import into a store of pairwise distinct ids leaves
\* a store of pairwise distinct ids.
C2_FreshIds ==
    [][((\E name \in Names : ConfirmCreateProject(name, MaxProjects))
          \/ (\E file \in SingleProjectFiles \cup LegacyListFiles :
                 ImportOnLoad(file, MaxProjects)))
        /\ DistinctIds(projects)
        => DistinctIds(projects')]_vars

\* C3: while the application is mounted, importing a single-project file adds
\* one project to the store and to the persisted document also when a project
\* of the same content is already stored, so that importing it twice adds
\* two.
C3_ImportNotDeduplicated ==
    [][\A file \in SingleProjectFiles :
          (Mounted /\ ImportOnLoad(file, MaxProjects)) =>
             /\ Len(projects') = Len(projects) + 1
             /\ Len(PersistedDoc') = Len(projects) + 1
             /\ Content(projects'[Len(projects')])
                  = Content(JsonParse(file).v)]_vars

C3_Witness ==
    /\ alerted = AlertImported
    /\ Len(projects) = 2
    /\ \A i \in 1..2 : Content(projects[i]) = [name |-> "B", apus |-> <<ApuX>>]

\* C4: while the application is mounted, an appending import (single project
\* or legacy list) keeps the store it found as an exact prefix and adds
\* exactly one project, also when the imported name is the name of a stored
\* project.
C4_ImportIsAdditive ==
    [][\A file \in SingleProjectFiles \cup LegacyListFiles :
          (Mounted /\ ImportOnLoad(file, MaxProjects)) =>
             /\ Len(projects') = Len(projects) + 1
             /\ SubSeq(projects', 1, Len(projects)) = projects
             /\ SubSeq(PersistedDoc', 1, Len(projects)) = projects]_vars

C4_Witness ==
    /\ alerted = AlertImported
    /\ Len(projects) = 2
    /\ projects[1].name = projects[2].name
    /\ projects[1] # projects[2]

\* C5: a file of unrecognized shape (a number, a string, an object without
\* apus or without a name) changes neither the store nor the persisted
\* document and is answered with the format error of its entry point.
C5_UnrecognizedRejected ==
    [][/\ \A file \in UnrecognizedFiles :
             ImportOnLoad(file, MaxProjects) =>
                /\ projects' = projects
                /\ storage' = storage
                /\ alerted' = AlertUnrecognized
       /\ \A file \in UnrecognizedFiles :
             RestoreOnLoad(file) =>
                /\ projects' = projects
                /\ storage' = storage
                /\ alerted' = AlertInvalidBackup]_vars

C5_Witness ==
    /\ alerted = AlertUnrecognized
    /\ Len(projects) = 2
    /\ PersistedDoc = projects

\* C6: a file whose parse throws, or whose inspection throws (null on the
\* import path), changes neither the store nor the persisted document and
\* is answered with the read error.
C6_ParseErrorCaught ==
    [][/\ \A file \in {FileMalformed, FileNull} :
             ImportOnLoad(file, MaxProjects) =>
                /\ projects' = projects
                /\ storage' = storage
                /\ alerted' = AlertReadError
       /\ RestoreOnLoad(FileMalformed) =>
             /\ projects' = projects
             /\ storage' = storage
             /\ alerted' = AlertReadError]_vars

C6_Witness ==
    /\ alerted = AlertReadError
    /\ Len(projects) = 2
    /\ PersistedDoc = projects

\* C7: a confirmed deletion leaves no project of the deleted id in the
\* store or in the persisted document, keeps the projects of every other
\* id in their order, and the store a start loads from the persisted
\* document holds no project of that id.
C7_DeleteIsDurable ==
    [][ConfirmDeleteProject =>
          /\ ~HasId(projects', projectToDelete.id)
          /\ ~HasId(PersistedDoc', projectToDelete.id)
          /\ projects' = Others(projects, projectToDelete.id)
          /\ ~HasId(LoadOnStart(storage'), projectToDelete.id)
          /\ LoadOnStart(storage') = projects']_vars

C7_Witness ==
    /\ storage # Null
    /\ Len(projects) = 1
    /\ PersistedDoc = projects
    /\ projects[1] = ProjB
    /\ projectToDelete = Null
    /\ alerted = NoAlert

(***************************************************************************)
(* Properties of the editor draft and of the APU mutations (Spec).         *)
(***************************************************************************)
\* C8: committing a draft whose id is the id of no APU of the active
\* project leaves the APU list of the active project as it was: the draft
\* is not appended and no APU changes.
C8_CommitOfAbsentIdIsDropped ==
    [][(BackToList /\ ~HasId(projectAPUs, currentEditorAPU.id)) =>
          /\ projectAPUs' = projectAPUs
          /\ currentProject'.apus = currentProject.apus
          /\ ~HasId(projectAPUs', currentEditorAPU.id)]_vars

C8_Witness ==
    /\ InEditor
    /\ currentEditorAPU.id = editingApuId
    /\ projectAPUs # <<>>
    /\ ~HasId(projectAPUs, currentEditorAPU.id)

\* The continuation of handleAiGenerate improves the draft.
AiImproves ==
    \E generated \in AiResults \ {Null} :
        AiAnswer(generated, MaxApus) /\ TruthyStr(pendingAi.editingApuId)

\* C9: a field edit, a resource edit and an AI improvement change the
\* draft only: the APU list of the active project, the store and the
\* persisted document stay as they were; closing the project leaves the
\* editor without writing the draft anywhere.
C9_EditsStayInDraft ==
    [][/\ ((\E e \in FieldEdits : UpdateField(e[1], e[2]))
             \/ (\E r \in ResourceEdits : UpdateResources(r))
             \/ AiImproves)
          => /\ projects' = projects
             /\ storage' = storage
             /\ currentProject' = currentProject
             /\ projectAPUs' = projectAPUs
       /\ (CloseProject /\ TruthyStr(editingApuId))
          => /\ projects' = projects
             /\ storage' = storage
             /\ editingApuId' = NullId]_vars

C9_Witness ==
    /\ InEditor
    /\ HasId(projectAPUs, editingApuId)
    /\ currentEditorAPU.unit = "m2"
    /\ currentEditorAPU.resources = <<ResM>>
    /\ \A i \in 1..Len(projectAPUs) :
          projectAPUs[i].id = editingApuId =>
             projectAPUs[i].unit = "unid" /\ projectAPUs[i].resources = <<>>
    /\ PersistedDoc = projects
    /\ \E i \in 1..Len(projects) :
          projects[i].id = currentProject.id /\ projects[i].apus = projectAPUs

\* C10: after an APU add, edit commit or delete through the active project
\* the persisted document holds a project of the active project's id whose
\* apus are the new APU list.
C10_ApuMutationPersisted ==
    [][((CreateItem(MaxApus) \/ BackToList \/ ConfirmDeleteApu)
          /\ currentProject # Null)
        => \E i \in 1..Len(PersistedDoc') :
              /\ PersistedDoc'[i].id = currentProject.id
              /\ PersistedDoc'[i].apus = projectAPUs']_vars

\* C11: while the application is mounted, a step that changes the store or
\* the persisted document (create, saveProjectState, project delete, import,
\* restore) leaves a persisted document that is the whole in-memory project
\* sequence.
C11_PersistedIsWholeStore ==
    [][(Mounted /\ (projects' # projects \/ storage' # storage))
        => /\ storage' # Null
           /\ PersistedDoc' = projects']_vars

C11_Witness ==
    /\ currentProject # Null
    /\ projectAPUs # <<>>
    /\ PersistedDoc = projects
    /\ \E i \in 1..Len(projects) :
          projects[i].id = currentProject.id /\ projects[i].apus = projectAPUs

\* A record with the fields of a Project that the views read.
IsProject(p) == {"id", "name", "apus"} \subseteq DOMAIN p

\* C12: the store a load on start leaves is a sequence of projects: the
\* persisted document when it loads, the empty sequence otherwise.
C12_LoadGivesProjects ==
    [][Reload =>
          /\ \A i \in 1..Len(projects') : IsProject(projects'[i])
          /\ (projects' = PersistedDoc \/ projects' = <<>>)]_vars

(***************************************************************************)
(* Properties of the cost engine (SpecCost).                               *)
(***************************************************************************)
\* The APU lists the views total: each stored project's and the open one's.
ViewedApuLists ==
    {projectAPUs} \cup {projects[i].apus : i \in 1..Len(projects)}

\* The APUs the views price: those of the lists and the editor draft.
ViewedApus ==
    UNION {{list[i] : i \in 1..Len(list)} : list \in ViewedApuLists}
      \cup (IF currentEditorAPU = Null THEN {} ELSE {currentEditorAPU})

\* The sum of price * quantity over resources, from the last to the first.
RECURSIVE SumPriceQuantity(_)
SumPriceQuantity(resources) ==
    IF resources = <<>> THEN 0
    ELSE resources[Len(resources)].price * resources[Len(resources)].quantity
           + SumPriceQuantity(SubSeq(resources, 1, Len(resources) - 1))

\* The sum of unit price * quantity over list, from the last to the first.
RECURSIVE SumPriceTimesQuantity(_)
SumPriceTimesQuantity(list) ==
    IF list = <<>> THEN 0
    ELSE calculateUnitPrice(list[Len(list)]) * list[Len(list)].quantity
           + SumPriceTimesQuantity(SubSeq(list, 1, Len(list) - 1))

\* C13: the unit price of an APU without resources is 0 whatever its
\* indirects and profit percentages are.
C13_EmptyResourcesPriceZero ==
    \A apu \in ViewedApus :
        apu.resources = <<>> => calculateUnitPrice(apu) = 0

C13_Witness ==
    \E i \in 1..Len(projectAPUs) :
        /\ projectAPUs[i].resources = <<>>
        /\ projectAPUs[i].indirectsPercentage = 15
        /\ projectAPUs[i].profitPercentage = 25
        /\ calculateUnitPrice(projectAPUs[i]) = 0

\* C14: the unit price is directCost * (1 + indirects/100) * (1 + profit/100)
\* with directCost the sum of price * quantity, profit compounding on
\* indirects; the resources (100 x 2) and (50 x 1) at 15% and 10% give
\* 316.25; a negative price is carried through the arithmetic.
C14_UnitPriceCompounds ==
    \A apu \in ViewedApus :
        /\ calculateUnitPrice(apu)
             = SumPriceQuantity(apu.resources)
                 * (100 + apu.indirectsPercentage)
                 * (100 + apu.profitPercentage)
        /\ (/\ apu.resources = <<ResM, ResPeon>>
            /\ apu.indirectsPercentage = 15
            /\ apu.profitPercentage = 10)
           => calculateUnitPrice(apu) = 3162500
        /\ (/\ apu.resources = <<ResNeg, ResPeon>>
            /\ apu.indirectsPercentage = 15
            /\ apu.profitPercentage = 10)
           => calculateUnitPrice(apu) = -126500

C14_Witness ==
    /\ \E i \in 1..Len(projectAPUs) :
          /\ projectAPUs[i].resources = <<ResM, ResPeon>>
          /\ projectAPUs[i].indirectsPercentage = 15
          /\ projectAPUs[i].profitPercentage = 10
    /\ \E i \in 1..Len(projectAPUs) :
          /\ projectAPUs[i].resources = <<ResNeg, ResPeon>>
          /\ calculateUnitPrice(projectAPUs[i]) < 0

\* C15: the total of a list of APUs is the sum of unit price * quantity
\* over its APUs: 0 for the empty list, the sum of the two unit prices for
\* two APUs of quantity 1.
C15_TotalIsSumOfPriceTimesQuantity ==
    \A list \in ViewedApuLists :
        /\ calculateTotalFromList(list) = SumPriceTimesQuantity(list)
        /\ list = <<>> => calculateTotalFromList(list) = 0
        /\ (Len(list) = 2 /\ list[1].quantity = 1 /\ list[2].quantity = 1)
           => calculateTotalFromList(list)
                = calculateUnitPrice(list[1]) + calculateUnitPrice(list[2])

C15_Witness ==
    /\ Len(projectAPUs) = 2
    /\ projectAPUs[1].quantity = 1
    /\ projectAPUs[2].quantity = 1
    /\ calculateUnitPrice(projectAPUs[1]) = 3162500
    /\ calculateUnitPrice(projectAPUs[2]) = -126500
    /\ calculateTotalFromList(projectAPUs) = 3036000

\* The positions <<i, j>> of the resources of a type in a list of APUs.
PositionsOfType(list, type) ==
    UNION {{<<i, j>> : j \in {k \in 1..Len(list[i].resources) :
                                 list[i].resources[k].type = type}} :
           i \in 1..Len(list)}

\* The sum of price * quantity over a set of positions of a list of APUs.
RECURSIVE SumAtPositions(_, _)
SumAtPositions(list, positions) ==
    IF positions = {} THEN 0
    ELSE LET x == CHOOSE x \in positions : TRUE
             r == list[x[1]].resources[x[2]]
         IN  r.price * r.quantity + SumAtPositions(list, positions \ {x})

\* A list of APUs with every markup percentage set to 0.
WithoutMarkup(list) ==
    [i \in 1..Len(list) |->
        [list[i] EXCEPT !.indirectsPercentage = 0, !.profitPercentage = 0]]

\* C16: the MATERIAL subtotal of a list of APUs is the sum of
\* price * quantity over the resources of type MATERIAL of all its APUs and
\* is the subtotal of the same list without markup: an edit of a markup
\* percentage leaves the subtotal of the draft as it was.
C16_MaterialSubtotalWithoutMarkup ==
    /\ \A list \in ViewedApuLists :
          /\ categoryCost(list, MATERIAL)
               = SumAtPositions(list, PositionsOfType(list, MATERIAL))
          /\ categoryCost(list, MATERIAL)
               = categoryCost(WithoutMarkup(list), MATERIAL)
    /\ \A apu \in ViewedApus :
          categoryCost(<<apu>>, MATERIAL)
            = ResourcesCostOfType(apu.resources, MATERIAL)

C16_Witness ==
    /\ Len(projectAPUs) = 2
    /\ \E i \in 1..2 :
          /\ projectAPUs[i].resources = <<ResM, ResPeon>>
          /\ projectAPUs[i].indirectsPercentage = 0
          /\ projectAPUs[i].profitPercentage = 25
    /\ \E i \in 1..2 : projectAPUs[i].resources = <<ResNeg, ResPeon>>
    /\ categoryCost(projectAPUs, MATERIAL) = 140
    /\ calculateTotalFromList(projectAPUs) # 1400000

(***************************************************************************)
(* Properties of the reconciliation of a file with the store (SpecStore).  *)
(***************************************************************************)
\* C17: while the application is mounted, a top-level array of APUs is
\* wrapped, on the import and on the restore entry point, as the apus of one
\* appended project with the placeholder name and lastModified = now; the
\* store is never replaced by the list.
C17_LegacyListIsWrapped ==
    [][\A file \in LegacyListFiles :
          (Mounted /\ (ImportOnLoad(file, MaxProjects) \/ RestoreOnLoad(file)))
          =>
             /\ Len(projects') = Len(projects) + 1
             /\ SubSeq(projects', 1, Len(projects)) = projects
             /\ Content(projects'[Len(projects')])
                  = [name |-> "Proyecto Importado", lastModified |-> now,
                     apus |-> JsonParse(file).v]]_vars

\* C18: while the application is mounted, a top-level array of projects
\* becomes the store, on the import and on the restore entry point; it is
\* never wrapped as the apus of one project.
C18_FullBackupReplacesStore ==
    [][\A file \in FullBackupFiles :
          (Mounted /\ (ImportOnLoad(file, MaxProjects) \/ RestoreOnLoad(file)))
          =>
             /\ projects' = BackupProjects(file)
             /\ PersistedDoc' = BackupProjects(file)]_vars

(***************************************************************************)
(* Properties of the APU list (SpecApu).                                   *)
(***************************************************************************)
\* C19: the APUs of each stored project, and those of the working view,
\* have pairwise distinct ids.
C19_ApuIdsDistinct ==
    /\ DistinctIds(projectAPUs)
    /\ \A i \in 1..Len(projects) : DistinctIds(projects[i].apus)

(***************************************************************************)
(* Properties of the project handlers (SpecStore).                         *)
(***************************************************************************)
\* C20: creating a project under a non-blank name appends one project with
\* that name, empty apus and lastModified = now to the end of the store,
\* keeps the projects found, persists the whole store and makes the new
\* project the active one; under a blank name nothing changes.
C20_CreateAppendsAndOpens ==
    [][\A name \in Names :
          ConfirmCreateProject(name, MaxProjects) =>
             IF Trim(name) = ""
             THEN UNCHANGED <<projects, storage, currentProject, projectAPUs,
                              editingApuId>>
             ELSE /\ Len(projects') = Len(projects) + 1
                  /\ SubSeq(projects', 1, Len(projects)) = projects
                  /\ Content(projects'[Len(projects')])
                       = [name |-> name, lastModified |-> now, apus |-> <<>>]
                  /\ PersistedDoc' = projects'
                  /\ currentProject' = projects'[Len(projects')]
                  /\ projectAPUs' = <<>>]_vars

C20_Witness ==
    /\ Len(projects) = 2
    /\ projects[1].name = "B"
    /\ currentProject = projects[2]
    /\ Content(currentProject)
         = [name |-> "A", lastModified |-> now, apus |-> <<>>]
    /\ PersistedDoc = projects
    /\ projectAPUs = <<>>

\* C21: opening a project and closing the active project leave the store
\* and the persisted document as they were; they set or clear the active
\* project and the working view and touch nothing else.
C21_OpenCloseLeaveStore ==
    [][/\ \A i \in 1..MaxProjects :
             OpenProject(i) =>
                /\ projects' = projects
                /\ storage' = storage
                /\ currentProject' = projects[i]
                /\ projectAPUs' = projects[i].apus
                /\ UNCHANGED <<currentEditorAPU, modalVars, aiVars, reads>>
       /\ CloseProject =>
             /\ projects' = projects
             /\ storage' = storage
             /\ currentProject' = Null
             /\ projectAPUs' = <<>>
             /\ UNCHANGED <<currentEditorAPU, modalVars, aiVars, reads>>]_vars

C21_Witness ==
    /\ Len(projects) = 2
    /\ currentProject = projects[2]
    /\ projectAPUs = projects[2].apus
    /\ projectAPUs # <<>>
    /\ PersistedDoc = projects
    /\ alerted = NoAlert

(***************************************************************************)
(* Properties of saveProjectState and the APU handlers (Spec).             *)
(***************************************************************************)
\* After the step, every store entry of this id carries the time of the step.
StampedNow(id) ==
    \A i \in 1..Len(projects') :
        projects'[i].id = id => projects'[i].lastModified = now

\* The continuation of handleAiGenerate appends a generated APU.
AiAppends ==
    \E generated \in AiResults \ {Null} :
        /\ Mounted
        /\ AiAnswer(generated, MaxApus)
        /\ ~TruthyStr(pendingAi.editingApuId)

\* C22: while the application is mounted, an APU add, commit or delete sets
\* lastModified of the store entry of the project it saves to the time of the
\* step; the clock never goes back, so successive mutations never lower it.
C22_MutationStampsProject ==
    [][/\ ((CreateItem(MaxApus) \/ BackToList \/ ConfirmDeleteApu)
             /\ currentProject # Null)
          => StampedNow(currentProject.id) /\ now' = now
       /\ AiAppends => StampedNow(pendingAi.currentProject.id) /\ now' = now
       /\ now' >= now]_vars

C22_Witness ==
    /\ currentProject # Null
    /\ Len(projects) = 1
    /\ projects[1].id = "1"
    /\ projects[1].apus # <<>>
    /\ projects[1].lastModified = 2
    /\ now = 2
    /\ currentProject = projects[1]

\* C23: while the application is mounted, when the generation service answers
\* with nothing, the store, the persisted document, the active project, its
\* APU list and the editor draft stay as they were, and the request ends:
\* isGenerating is cleared and nothing is alerted.
C23_NoResultChangesNothing ==
    [][(Mounted /\ AiAnswer(Null, MaxApus)) =>
          /\ UNCHANGED <<projects, storage, currentProject, projectAPUs,
                         editingApuId, currentEditorAPU>>
          /\ isGenerating' = FALSE
          /\ pendingAi' = Null
          /\ alerted' = NoAlert]_vars

C23_Witness ==
    /\ InEditor
    /\ pendingAi # Null
    /\ isGenerating
    /\ TruthyStr(pendingAi.editingApuId)
    /\ currentEditorAPU.resources = <<ResM>>
    /\ ENABLED AiAnswer(Null, MaxApus)

(***************************************************************************)
(* Properties of the AI improvement of a draft (SpecDraft).                *)
(***************************************************************************)
\* The fields of a draft that an AI result never carries into it.
KeptFields ==
    {"id", "code", "quantity", "indirectsPercentage", "profitPercentage",
     "category"}

\* generated returns a non-empty text under this field.
Returns(generated, field) ==
    field \in DOMAIN generated /\ generated[field] # ""

\* C24: an AI result applied to a draft makes the draft's resources the
\* returned resources (none when none is returned) and keeps none of the
\* previous ones; description and unit change only when returned; id, code,
\* quantity, both percentages and category stay.
C24_AiReplacesResourcesOnly ==
    [][\A generated \in DraftAiResults \ {Null} :
          (/\ AiAnswer(generated, MaxApus)
           /\ TruthyStr(pendingAi.editingApuId)
           /\ currentEditorAPU # Null)
          => /\ DOMAIN currentEditorAPU' = DOMAIN currentEditorAPU
             /\ currentEditorAPU'.resources
                  = (IF "resources" \in DOMAIN generated
                     THEN generated.resources ELSE <<>>)
             /\ \A field \in {"description", "unit"} :
                   currentEditorAPU'[field]
                     = (IF Returns(generated, field)
                        THEN generated[field] ELSE currentEditorAPU[field])
             /\ \A field \in KeptFields :
                   currentEditorAPU'[field] = currentEditorAPU[field]]_vars

C24_Witness ==
    /\ InEditor
    /\ pendingAi = Null
    /\ currentEditorAPU.resources = <<ResPeon>>
    /\ currentEditorAPU.unit = "m2"
    /\ currentEditorAPU.description = "losa"
    /\ currentEditorAPU.id = editingApuId
    /\ currentEditorAPU.code = "CON-1"

(***************************************************************************)
(* Properties of overlapping imports and mutations (SpecOverlap).          *)
(***************************************************************************)
\* The positions at which the store after the step differs from the store
\* before it.
ChangedEntries ==
    {i \in 1..Len(projects) : i > Len(projects') \/ projects'[i] # projects[i]}

\* C25: while the application is mounted, with reads in flight together and
\* APU mutations of the open project in between, every import appends its
\* project to the store it finds and every APU mutation changes one store
\* entry at most, so that no appended project is lost or overwritten and the
\* persisted document holds them all.
C25_OverlappingImportsAllLand ==
    [][/\ \A file \in OverlapFiles :
             (Mounted /\ ImportOnLoad(file, MaxOverlapProjects)) =>
                /\ Len(projects') = Len(projects) + 1
                /\ ChangedEntries = {}
                /\ PersistedDoc' = projects'
       /\ ((CreateItem(MaxApus) \/ BackToList) /\ currentProject # Null) =>
             /\ Len(projects') = Len(projects)
             /\ Cardinality(ChangedEntries) <= 1
             /\ PersistedDoc' = projects']_vars

(***************************************************************************)
(* Properties of export followed by import (SpecExport).                   *)
(***************************************************************************)
\* C26: while the application is mounted, when a project of the store was
\* exported, importing the download is reported as a project import and
\* appends a project that equals the exported one in every field but id.
C26_ExportImportRoundTrip ==
    [][(/\ Mounted
        /\ downloaded # Null
        /\ downloaded.stored
        /\ ImportOnLoad(downloaded.file, MaxProjects)) =>
           /\ alerted' = AlertImported
           /\ Len(projects') = Len(projects) + 1
           /\ Content(projects'[Len(projects')]) =
                  Content(downloaded.project)]_vars

(***************************************************************************)
(* Frame of saveProjectState (Spec).                                       *)
(***************************************************************************)
\* The fields of a project that saveProjectState is not meant to touch.
Frame(p) == [k \in (DOMAIN p) \ {"apus", "lastModified"} |-> p[k]]

\* C27: a save of the APU list keeps the number of projects, changes only
\* apus and lastModified of the entry that has the active project's id and
\* leaves every other entry as it was; with no active project it changes
\* nothing.
C27_SaveChangesOnlyActiveEntry ==
    [][(\/ CreateItem(MaxApus)
        \/ BackToList
        \/ ConfirmDeleteApu) =>
           IF currentProject = Null
           THEN UNCHANGED storeVars
           ELSE /\ Len(projects') = Len(projects)
                /\ \A i \in 1..Len(projects) :
                      IF projects[i].id = currentProject.id
                      THEN Frame(projects'[i]) = Frame(projects[i])
                      ELSE projects'[i] = projects[i]]_vars

(***************************************************************************)
(* Properties of the APU handlers (SpecApu).                               *)
(***************************************************************************)
\* C28: committing a draft whose id is in the working list puts the draft
\* in the place of every APU of that id, keeps the length of the list and
\* every other APU where it was, saves the list as the apus of the active
\* project and closes the editor.
C28_CommitReplacesInPlace ==
    [][(BackToList /\ HasId(projectAPUs, editingApuId)) =>
          /\ Len(projectAPUs') = Len(projectAPUs)
          /\ \A i \in 1..Len(projectAPUs) :
                projectAPUs'[i] = IF projectAPUs[i].id = editingApuId
                                  THEN currentEditorAPU
                                  ELSE projectAPUs[i]
          /\ currentProject'.apus = projectAPUs'
          /\ editingApuId' = NullId
          /\ currentEditorAPU' = Null]_vars

C28_Witness ==
    /\ InListView
    /\ currentEditorAPU = Null
    /\ Len(projectAPUs) = 2
    /\ projectAPUs[1].code = "CON-1"
    /\ projectAPUs[1].unit = "m2"
    /\ projectAPUs[2].unit = "unid"
    /\ currentProject.apus = projectAPUs

\* C29: confirming the deletion of an APU takes every APU of its id out of
\* the working list, of the active project and of that project's entry in
\* the persisted document, in the same step, keeps the other APUs in their
\* order and closes the editor when that APU was the one edited; and a
\* commit of a draft never brings in an id the list does not hold.
C29_DeleteIsImmediateAndFinal ==
    [][/\ (ConfirmDeleteApu /\ currentProject # Null) =>
             LET id == apuToDelete.id
             IN  /\ projectAPUs' = Others(projectAPUs, id)
                 /\ currentProject'.apus = projectAPUs'
                 /\ \A i \in 1..Len(PersistedDoc') :
                       PersistedDoc'[i].id = currentProject.id =>
                           PersistedDoc'[i].apus = projectAPUs'
                 /\ apuToDelete' = Null
                 /\ editingApuId = id =>
                       editingApuId' = NullId /\ currentEditorAPU' = Null
       /\ BackToList =>
             /\ \A i \in 1..Len(projectAPUs') :
                   HasId(projectAPUs, projectAPUs'[i].id)
             /\ currentProject'.apus = projectAPUs'
             /\ \A i \in 1..Len(PersistedDoc') :
                   PersistedDoc'[i].id = currentProject.id =>
                       PersistedDoc'[i].apus = projectAPUs']_vars

C29_Witness ==
    /\ InListView
    /\ Len(projectAPUs) = 1
    /\ projectAPUs[1].code = "CON-2"
    /\ Len(PersistedDoc) = 1
    /\ PersistedDoc[1].apus = projectAPUs

(***************************************************************************)
(* Properties of the restore confirmation (SpecStore).                     *)
(***************************************************************************)
\* C30: when no backup file is selected or the confirmation is declined,
\* the store, the persisted document and the reads in flight stay as they
\* were; a read for a restore starts only on a confirmed selection, and a
\* restore replaces the store only as the end of such a read.
C30_RestoreNeedsConfirmation ==
    [][/\ \A chosen, confirmed \in BOOLEAN :
             (SelectBackupFile(chosen, confirmed) /\ ~(chosen /\ confirmed))
                => UNCHANGED <<projects, storage, reads>>
       /\ reads'.restore > reads.restore => SelectBackupFile(TRUE, TRUE)
       /\ (\E file \in Files : RestoreOnLoad(file)) => reads.restore > 0]_vars

C30_Witness ==
    /\ projects # <<>>
    /\ PersistedDoc = projects
    /\ reads.restore = 0
    /\ ENABLED SelectBackupFile(TRUE, FALSE)
    /\ ENABLED SelectBackupFile(FALSE, FALSE)

(***************************************************************************)
(* Invariants of the active project and of the editor.                     *)
(***************************************************************************)
\* C31: whenever a project is active, the working APU list is the apus of
\* the active project and the store holds a project of the active
\* project's id whose apus are that list.
C31_ViewIsStored ==
    currentProject # Null =>
        /\ projectAPUs = currentProject.apus
        /\ \E i \in 1..Len(projects) :
              /\ projects[i].id = currentProject.id
              /\ "apus" \in DOMAIN projects[i]
              /\ projects[i].apus = projectAPUs

\* C32: whenever an editing id is set, a project is active, a draft exists,
\* the draft has the editing id and the working APU list holds an APU of
\* that id.
C32_EditorHasItsApu ==
    TruthyStr(editingApuId) =>
        /\ currentProject # Null
        /\ currentEditorAPU # Null
        /\ currentEditorAPU.id = editingApuId
        /\ HasId(projectAPUs, editingApuId)

(***************************************************************************)
(* Late answers of the generation service (SpecApu).                       *)
(***************************************************************************)
\* C33: while the application is mounted, an answer to a request made in the
\* list view of a project appends the generated APU to the apus that project
\* has in the store when the answer arrives, leaves every other project as it
\* was, and leaves active the project that was active, or none.
C33_LateAnswerAppendsToCurrentList ==
    [][\A generated \in AiResults \ {Null} :
          (/\ Mounted
           /\ AiAnswer(generated, MaxListApus)
           /\ ~TruthyStr(pendingAi.editingApuId)) =>
             /\ IF currentProject = Null
                THEN currentProject' = Null
                ELSE /\ currentProject' # Null
                     /\ currentProject'.id = currentProject.id
             /\ Len(projects') = Len(projects)
             /\ \A i \in 1..Len(projects) :
                   IF projects[i].id = pendingAi.currentProject.id
                   THEN projects'[i].apus =
                            Push(projects[i].apus,
                                 GeneratedItem(generated, now))
                   ELSE projects'[i] = projects[i]]_vars

(***************************************************************************)
(* Liveness of the generating flag (SpecAi).                               *)
(***************************************************************************)
\* C34: whenever the generating flag is set it is cleared later, whatever
\* the outcome of the call to the generation service.
C34_GeneratingIsCleared == isGenerating ~> ~isGenerating
====
